---- MODULE Spec2Model ----
(***************************************************************************)
(* Batch job execution engine of TokenBalanceFetcher:                      *)
(*   - MemStorage (server/storage.ts): the job map and the address-result  *)
(*     map, with their create / get / update operations;                   *)
(*   - POST /api/batch-jobs and POST /api/batch-jobs/:id/process           *)
(*     (server/routes.ts);                                                 *)
(*   - processAddressesBatch (server/routes.ts), the background runner.    *)
(*                                                                         *)
(* JavaScript runs one task at a time and switches tasks only at an await. *)
(* Every action below is one such segment: the code between two awaits,    *)
(* with the store call it ends in (MemStorage methods contain no await, so *)
(* their effect takes place at the call). The promise of a MemStorage call *)
(* is settled when it is returned, so the code after its await runs as a   *)
(* microtask, before any other request, timer or network callback: a       *)
(* process suspended at a store call is the next to run (Turn).            *)
(*                                                                         *)
(* Time: the code only compares timestamps (the sort of                    *)
(* getAddressResultsByBatchId) and tests them for null, so the clock and   *)
(* the rows' timestamps are kept up to order: after every step they are    *)
(* renumbered 0, 1, 2, ... in the same order, ties kept.                   *)
(***************************************************************************)
EXTENDS Integers, Sequences, FiniteSets, TLC

\* ---------------------------------------------------------------- bounds
MaxStarts == 2        \* start requests (each may launch one runner)
MaxLen == 2           \* longest address list of a start request
MaxFaults == 1        \* store calls that may fail in one behaviour

\* ------------------------------------------------------- program constants
maxRetries == 3
DefaultRateLimit == 5

\* ------------------------------------------------------------ value sets
Addresses == {"spA", "spB"}
JobIds == {1, 2}                \* ids a request can name; randomUUID gives 1, 2, ...
ProcIds == 1..MaxStarts

Null == "null"                  \* null of a text / jsonb column
NoDate == -1                    \* null of a timestamp column
Undefined == -1                 \* a number field the request body left out

JobStatuses == {"pending", "processing", "completed", "failed"}
Terminal == {"completed", "failed"}
RowTerminal == {"success", "failed"}

NoResponse == 0                 \* response === null
NetworkError == 0               \* outcome of a fetch that rejected
HttpStatuses == {200, 429, 404, 500}
Outcomes == HttpStatuses \cup {NetworkError}

Payload == "payload"            \* the parsed response body, opaque

RECURSIVE SeqsUpTo(_, _)
SeqsUpTo(S, n) ==
  IF n = 0 THEN {<<>>}
  ELSE LET shorter == SeqsUpTo(S, n - 1)
       IN shorter \cup {Append(s, x) : s \in {t \in shorter : Len(t) = n - 1}, x \in S}

AddressLists == SeqsUpTo(Addresses, MaxLen)

VARIABLES
  batchJobs,        \* MemStorage.batchJobs: job id -> BatchJob
  addressResults,   \* MemStorage.addressResults in insertion order; id = position
  now,              \* the wall clock read by new Date()
  procs,            \* one start request each: the route handler, then its runner
  faults,           \* store calls that have failed so far
  lastRead,         \* the latest answer of a read route (GET), as the client got it
  lookup,           \* one address looked up: the runner's retry loop and the client's
  direct,           \* processAddressesDirectly in the client
  form              \* the address input form: selectedTokens, customTokenAddress

vars == <<batchJobs, addressResults, now, procs, faults, lastRead, lookup, direct, form>>

serverVars == <<batchJobs, addressResults, now, procs, faults, lastRead>>

\* ---------------------------------------------------------------- time
Stamps(rows, t) == {rows[i].processedAt : i \in DOMAIN rows} \cup {t}

Rank(S, t) == Cardinality({s \in S : s < t})

\* The next state of the store and the clock, timestamps renumbered in order.
\* completedAt is only ever tested for null: every date it holds is kept as 0.
Store(jobs, rows, t) ==
  LET S == Stamps(rows, t) IN
  /\ batchJobs' = [j \in DOMAIN jobs |->
        [jobs[j] EXCEPT !.completedAt = IF @ = NoDate THEN NoDate ELSE 0]]
  /\ addressResults' = [i \in DOMAIN rows |->
        [rows[i] EXCEPT !.processedAt = Rank(S, @)]]
  /\ now' = Rank(S, t)

\* ---------------------------------------------------------- MemStorage
\* createBatchJob: the body's fields, status defaulted, completedAt null.
createBatchJob(insertJob) ==
  [status |-> IF insertJob.status = "" THEN "pending" ELSE insertJob.status,
   totalAddresses |-> insertJob.totalAddresses,
   processedAddresses |-> insertJob.processedAddresses,
   successfulLookups |-> insertJob.successfulLookups,
   failedLookups |-> insertJob.failedLookups,
   rateLimit |-> insertJob.rateLimit,
   completedAt |-> NoDate]

\* updateBatchJob: { ...job, ...updates }; an unknown id changes nothing.
updateBatchJob(jobs, id, updates) ==
  IF id \notin DOMAIN jobs THEN jobs
  ELSE [jobs EXCEPT ![id] =
          [f \in DOMAIN jobs[id] |->
             IF f \in DOMAIN updates THEN updates[f] ELSE jobs[id][f]]]

createAddressResultDropped(rows, insertResult, t) == rows

\* createAddressResult: a new entry at the end of the map, stamped now.
createAddressResult(rows, insertResult, t) ==
  Append(rows,
    [batchJobId |-> insertResult.batchJobId,
     address |-> insertResult.address,
     status |-> IF insertResult.status = "" THEN "pending" ELSE insertResult.status,
     data |-> insertResult.data,
     errorMessage |-> insertResult.errorMessage,
     processedAt |-> t])

\* updateAddressResult: { ...result, ...updates, processedAt: new Date() }.
updateAddressResult(rows, id, updates, t) ==
  IF id \notin DOMAIN rows THEN rows
  ELSE [rows EXCEPT ![id] =
          [f \in DOMAIN rows[id] |->
             IF f = "processedAt" THEN t
             ELSE IF f \in DOMAIN updates THEN updates[f] ELSE rows[id][f]]]

\* The comparator of the sort: ascending processedAt. Array.prototype.sort is
\* stable and Map iterates in insertion order, so ties keep the order of ids.
Before(rows, a, b) ==
  \/ rows[a].processedAt < rows[b].processedAt
  \/ rows[a].processedAt = rows[b].processedAt /\ a < b

RECURSIVE SortIds(_, _)
SortIds(rows, ids) ==
  IF ids = {} THEN <<>>
  ELSE LET first == CHOOSE a \in ids : \A b \in ids \ {a} : Before(rows, a, b)
       IN <<first>> \o SortIds(rows, ids \ {first})

getAddressResultsOfAllJobs(rows, batchJobId) == SortIds(rows, DOMAIN rows)

\* getAddressResultsByBatchId: ids of the job's rows, sorted by processedAt.
getAddressResultsByBatchId(rows, batchJobId) ==
  SortIds(rows, {i \in DOMAIN rows : rows[i].batchJobId = batchJobId})

FindEntryAnyAddress(rows, batchJobId, address) ==
  LET results == getAddressResultsByBatchId(rows, batchJobId)
  IN IF results = <<>> THEN 0 ELSE results[1]

\* results.find(r => r.address === address): the id found, 0 for undefined.
FindEntry(rows, batchJobId, address) ==
  LET results == getAddressResultsByBatchId(rows, batchJobId)
      hits == {k \in DOMAIN results : rows[results[k]].address = address}
  IN IF hits = {} THEN 0
     ELSE results[CHOOSE k \in hits : \A m \in hits : k <= m]

\* -------------------------------------------------------------- processes
\* pc names the await a process is suspended at:
\*   idle                      no request yet
\*   h_get h_update h_create   the route: getBatchJob, updateBatchJob, createAddressResult
\*   w_list w_mark             the runner: getAddressResultsByBatchId, updateAddressResult(processing)
\*   w_fetch w_json            the requests of the retry loop, response.json()
\*   w_success w_failed        updateAddressResult(success), updateAddressResult(failed)
\*   w_progress                updateBatchJob(progress)
\*   w_final                   updateBatchJob(completed)
\*   done                      returned; crashed: the runner's promise rejected
\* waited is the delay(requestDelay) awaited on the way into the current
\* iteration (0: none); run and requests are the answers of the upstream to
\* the requests of the retry loop and the number of calls of fetch, held
\* while the loop's response and lastError are live (w_json, w_failed).
IdleProc ==
  [pc |-> "idle", job |-> 0, addresses |-> <<>>, found |-> FALSE, rateLimit |-> 0,
   i |-> 0, entry |-> 0,
   processedCount |-> 0, successCount |-> 0, failedCount |-> 0,
   threw |-> FALSE, reply |-> 0,
   waited |-> 0, run |-> <<>>, requests |-> 0]

HandlerPcs == {"h_get", "h_update", "h_create"}
RunnerPcs == {"w_list", "w_mark", "w_fetch", "w_json", "w_success",
              "w_failed", "w_progress", "w_final"}

\* The locals of the retry loop before its first pass.
NewLoop ==
  [retryCount |-> 0, response |-> NoResponse, lastError |-> Null, requests |-> 0,
   again |-> TRUE]

\* callSparkscanAPI before its first pass: for (let attempt = 1; ...).
NewCall ==
  [attempt |-> 1, requests |-> 0, again |-> TRUE, success |-> FALSE, error |-> Null]

\* No address is being looked up. rate is the rate limit of the run, parses
\* tells whether the body of a 2xx answer is JSON, run holds the answers of
\* the upstream to the first, second, ... request for the address; loop and
\* waits are the runner's retry loop and the delays it has awaited, result
\* what the runner makes of the lookup; call and callWaits are the same for
\* callSparkscanAPI.
IdleLookup ==
  [rate |-> 0, parses |-> TRUE, run |-> <<>>,
   loop |-> NewLoop, waits |-> <<>>, result |-> "",
   call |-> NewCall, callWaits |-> <<>>]

\* processAddressesDirectly before it is called. pc names the await it is
\* suspended at: lookup (callSparkscanAPI), submit (mutateAsync in the try
\* block), catch_submit (mutateAsync in the catch block); done: returned,
\* crashed: its promise rejected. i is the index of the address at work,
\* 1-based, status the outcome being submitted, received the submit-result
\* requests that reached the server, in order.
IdleDirect ==
  [pc |-> "idle", addresses |-> <<>>, i |-> 0, status |-> "", received |-> <<>>]

\* The token addresses of PREDEFINED_TOKENS (written by their tickers) and
\* two addresses a user may type into the custom token input.
FSPKS == "btkn1...FSPKS"
SNOW == "btkn1...SNOW"
UTXO == "btkn1...UTXO"
PREDEFINED_TOKENS == <<FSPKS, SNOW, UTXO>>
CustomTexts == {"", FSPKS, SNOW, UTXO, "btkn1custom1", "btkn1custom2"}

\* targetTokenAddress of the create request: none sent yet, and undefined.
NotSent == "not sent"
NoToken == "undefined"

\* The state of the address input form: selectedTokens, customTokenAddress,
\* showCustomToken, and the targetTokenAddress of the last create request.
InitialForm ==
  [selectedTokens |-> <<FSPKS>>, customTokenAddress |-> "",
   showCustomToken |-> FALSE, targetTokenAddress |-> NotSent]

\* No read route has been called yet.
NoRead == [route |-> "", job |-> 0, response |-> <<>>]

Init ==
  /\ batchJobs = <<>>
  /\ addressResults = <<>>
  /\ now = 0
  /\ procs = [p \in ProcIds |-> IdleProc]
  /\ faults = 0
  /\ lastRead = NoRead
  /\ lookup = IdleLookup
  /\ direct = IdleDirect
  /\ form = InitialForm

\* The bodies POST /api/batch-jobs accepts (insertBatchJobSchema): status, the
\* three counters and rateLimit are optional, totalAddresses is required.
BodyStatuses == {""} \cup JobStatuses
BodyCounts == {Undefined, 0, 1}
JobBodies ==
  [status : BodyStatuses, totalAddresses : 0..MaxLen,
   processedAddresses : BodyCounts, successfulLookups : BodyCounts,
   failedLookups : BodyCounts, rateLimit : {Undefined}]

\* The body the client sends (handleStartAnalysis): no status, no counters.
ClientBodies == {b \in JobBodies :
  /\ b.status = ""
  /\ b.processedAddresses = Undefined
  /\ b.successfulLookups = Undefined
  /\ b.failedLookups = Undefined}

\* The process is suspended at a store call: its continuation is a microtask.
\* After the progress write it goes on to delay(requestDelay), a timer, unless
\* this was the last count or the write failed.
InMicrotask(pr) ==
  \/ pr.pc \in {"h_get", "h_update", "h_create", "w_list", "w_mark",
                "w_success", "w_failed", "w_final"}
  \/ pr.pc = "w_progress" /\ (pr.threw \/ pr.processedCount >= Len(pr.addresses))

\* Process p may run: no other process has a microtask pending.
Turn(p) == \A q \in ProcIds \ {p} : ~InMicrotask(procs[q])

\* A new request, timer or network callback may run: no microtask is pending.
TaskTurn == \A q \in ProcIds : ~InMicrotask(procs[q])

\* A store call fails (its promise rejects) or not; at most MaxFaults fail.
FaultChoices(mayFail) == IF mayFail /\ faults < MaxFaults THEN BOOLEAN ELSE {FALSE}

Step(p, pr, jobs, rows, t, fault) ==
  /\ Store(jobs, rows, t)
  /\ procs' = [procs EXCEPT ![p] = [pr EXCEPT !.threw = fault]]
  /\ faults' = IF fault THEN faults + 1 ELSE faults
  /\ UNCHANGED <<lastRead, lookup, direct, form>>

\* POST /api/batch-jobs: the job is stored under a fresh id.
CreateJob(id, body) ==
  /\ TaskTurn
  /\ id = Cardinality(DOMAIN batchJobs) + 1
  /\ Store([j \in DOMAIN batchJobs \cup {id} |->
              IF j = id THEN createBatchJob(body) ELSE batchJobs[j]],
           addressResults, now)
  /\ UNCHANGED <<procs, faults, lastRead, lookup, direct, form>>

\* The clock advances.
Tick ==
  /\ Store(batchJobs, addressResults, now + 1)
  /\ UNCHANGED <<procs, faults, lastRead, lookup, direct, form>>

\* ------------------------------------------ POST /api/batch-jobs/:id/process
\* The request arrives: storage.getBatchJob(batchJobId).
StartRequest(p, id, addrs, fault) ==
  /\ procs[p].pc = "idle"
  /\ TaskTurn
  /\ \A q \in ProcIds : q < p => procs[q].pc # "idle"
  /\ Step(p, [procs[p] EXCEPT !.pc = "h_get", !.job = id, !.addresses = addrs,
                              !.found = (id \in DOMAIN batchJobs),
                              !.rateLimit = IF id \in DOMAIN batchJobs
                                            THEN batchJobs[id].rateLimit ELSE Undefined],
          batchJobs, addressResults, now, fault)

\* catch of the route: 500.
RouteCatch(p) ==
  Step(p, [procs[p] EXCEPT !.pc = "done", !.reply = 500],
       batchJobs, addressResults, now, FALSE)

StartUpdateUnchecked(p, fault) ==
  /\ procs[p].pc = "h_get"
  /\ Turn(p)
  /\ LET pr == procs[p] IN
     IF pr.threw THEN RouteCatch(p)
     ELSE Step(p, [pr EXCEPT !.pc = "h_update"],
               IF fault THEN batchJobs
               ELSE updateBatchJob(batchJobs, pr.job,
                      [status |-> "processing", totalAddresses |-> Len(pr.addresses)]),
               addressResults, now, fault)

\* if (!job) 404; else updateBatchJob(status processing, totalAddresses).
StartUpdate(p, fault) ==
  /\ procs[p].pc = "h_get"
  /\ Turn(p)
  /\ LET pr == procs[p] IN
     IF pr.threw THEN RouteCatch(p)
     ELSE IF ~pr.found
       THEN Step(p, [pr EXCEPT !.pc = "done", !.reply = 404],
                 batchJobs, addressResults, now, FALSE)
       ELSE Step(p, [pr EXCEPT !.pc = "h_update"],
                 IF fault THEN batchJobs
                 ELSE updateBatchJob(batchJobs, pr.job,
                        [status |-> "processing", totalAddresses |-> Len(pr.addresses)]),
                 addressResults, now, fault)

FinalStatusByFailures(pr) == IF pr.failedCount > 0 THEN "failed" ELSE "completed"

\* The status of the final write.
FinalStatus(pr) == "completed"

\* The loop of processAddressesBatch at its top, with pr.i the next address:
\* the listing (and the find over it), or past the last address the final write.
EnterIteration(p, pr, jobs, rows, t, fault) ==
  IF pr.i <= Len(pr.addresses)
  THEN Step(p, [pr EXCEPT !.pc = "w_list",
                          !.entry = FindEntry(rows, pr.job, pr.addresses[pr.i])],
            jobs, rows, t, fault)
  ELSE Step(p, [pr EXCEPT !.pc = "w_final"],
            IF fault THEN jobs
            ELSE updateBatchJob(jobs, pr.job,
                   [status |-> FinalStatus(pr), completedAt |-> t,
                    processedAddresses |-> pr.processedCount,
                    successfulLookups |-> pr.successCount,
                    failedLookups |-> pr.failedCount]),
            rows, t, fault)

\* for (const address of addresses) createAddressResult(pending); then the
\* runner is called (not awaited) and the route answers.
StartCreate(p, fault) ==
  /\ procs[p].pc \in {"h_update", "h_create"}
  /\ Turn(p)
  /\ LET pr == procs[p] IN
     IF pr.threw THEN RouteCatch(p)
     ELSE IF pr.i < Len(pr.addresses)
       THEN Step(p, [pr EXCEPT !.pc = "h_create", !.i = pr.i + 1],
                 batchJobs,
                 IF fault THEN addressResults
                 ELSE createAddressResult(addressResults,
                        [batchJobId |-> pr.job, address |-> pr.addresses[pr.i + 1],
                         status |-> "pending", data |-> Null, errorMessage |-> Null],
                        now),
                 now, fault)
       ELSE EnterIteration(p,
              [pr EXCEPT !.i = 1, !.reply = 200,
                         !.rateLimit = IF pr.rateLimit \in {0, Undefined}
                                       THEN DefaultRateLimit ELSE pr.rateLimit],
              batchJobs, addressResults, now, fault)

\* ------------------------------------------------- processAddressesBatch
Ok(status) == status >= 200 /\ status <= 299      \* response.ok

\* Math.ceil(1000 / rateLimit), in ms, for a positive rate.
requestDelay(rateLimit) == (1000 + rateLimit - 1) \div rateLimit

ProgressWithoutCount(p, pr, fault) ==
  Step(p, [pr EXCEPT !.pc = "w_progress"],
       updateBatchJob(batchJobs, pr.job,
         [processedAddresses |-> pr.processedCount,
          successfulLookups |-> pr.successCount,
          failedLookups |-> pr.failedCount]),
       addressResults, now, fault)

\* processedCount++ and the progress write of the three counters.
Progress(p, pr, fault) ==
  LET counted == [pr EXCEPT !.pc = "w_progress", !.processedCount = pr.processedCount + 1]
  IN Step(p, counted,
          IF fault THEN batchJobs
          ELSE updateBatchJob(batchJobs, pr.job,
                 [processedAddresses |-> counted.processedCount,
                  successfulLookups |-> counted.successCount,
                  failedLookups |-> counted.failedCount]),
          addressResults, now, fault)

\* The outer catch: failedCount++, processedCount++, then the next address.
OuterCatch(p, pr, fault) ==
  EnterIteration(p, [pr EXCEPT !.failedCount = pr.failedCount + 1,
                               !.processedCount = pr.processedCount + 1,
                               !.i = pr.i + 1, !.waited = 0],
                 batchJobs, addressResults, now, fault)

\* The inner catch: the row is written failed with the error's message.
FailWrite(p, pr, message, fault) ==
  Step(p, [pr EXCEPT !.pc = "w_failed"],
       batchJobs,
       IF fault THEN addressResults
       ELSE updateAddressResult(addressResults, pr.entry,
              [status |-> "failed", errorMessage |-> message], now),
       now, fault)

\* After the listing: find the row of the address and mark it processing; with
\* no row, go on to count the address.
RunnerList(p, fault) ==
  /\ procs[p].pc = "w_list"
  /\ Turn(p)
  /\ LET pr == procs[p] IN
     IF pr.threw THEN OuterCatch(p, pr, fault)
     ELSE IF pr.entry # 0
       THEN Step(p, [pr EXCEPT !.pc = "w_mark"],
                 batchJobs,
                 IF fault THEN addressResults
                 ELSE updateAddressResult(addressResults, pr.entry,
                        [status |-> "processing"], now),
                 now, fault)
       ELSE Progress(p, pr, fault)

\* After the row is marked processing: the first request is sent.
RunnerMark(p, fault) ==
  /\ procs[p].pc = "w_mark"
  /\ Turn(p)
  /\ LET pr == procs[p] IN
     IF pr.threw THEN OuterCatch(p, pr, fault)
     ELSE Step(p, [pr EXCEPT !.pc = "w_fetch"], batchJobs, addressResults, now, FALSE)

AttemptRetryingHttpErrors(loop, outcome) ==
  IF outcome = NetworkError \/ ~Ok(outcome)
  THEN IF loop.retryCount < maxRetries
       THEN [loop EXCEPT !.response = outcome, !.lastError = "error",
                         !.retryCount = loop.retryCount + 1, !.again = TRUE]
       ELSE [loop EXCEPT !.response = outcome, !.lastError = "error", !.again = FALSE]
  ELSE [loop EXCEPT !.response = outcome, !.lastError = Null, !.again = FALSE]

AttemptSeparateBudgets(loop, outcome) ==
  IF outcome = NetworkError
  THEN IF loop.requests - loop.retryCount < maxRetries
       THEN [loop EXCEPT !.lastError = "Network error", !.again = TRUE]
       ELSE [loop EXCEPT !.lastError = "Network error", !.again = FALSE]
  ELSE IF outcome = 429
  THEN IF loop.retryCount < maxRetries
       THEN [loop EXCEPT !.response = outcome, !.lastError = "Rate limited (429 error)",
                         !.retryCount = loop.retryCount + 1, !.again = TRUE]
       ELSE [loop EXCEPT !.response = outcome,
                         !.lastError = "Rate limited: All 4 attempts returned 429",
                         !.again = FALSE]
  ELSE IF ~Ok(outcome)
  THEN [loop EXCEPT !.response = outcome,
                    !.lastError = IF outcome = 404 THEN "HTTP 404" ELSE "HTTP 500",
                    !.again = FALSE]
  ELSE [loop EXCEPT !.response = outcome, !.lastError = Null, !.again = FALSE]

\* One pass of the while loop on the outcome of its request: the locals
\* after it, and whether the loop goes round again (after delay(retryDelay)).
Attempt(loop, outcome) ==
  IF outcome = NetworkError
  THEN IF loop.retryCount < maxRetries
       THEN [loop EXCEPT !.lastError = "Network error",
                         !.retryCount = loop.retryCount + 1, !.again = TRUE]
       ELSE [loop EXCEPT !.lastError = "Network error", !.again = FALSE]
  ELSE IF outcome = 429
  THEN IF loop.retryCount < maxRetries
       THEN [loop EXCEPT !.response = outcome, !.lastError = "Rate limited (429 error)",
                         !.retryCount = loop.retryCount + 1, !.again = TRUE]
       ELSE [loop EXCEPT !.response = outcome,
                         !.lastError = "Rate limited: All 4 attempts returned 429",
                         !.again = FALSE]
  ELSE IF ~Ok(outcome)
  THEN [loop EXCEPT !.response = outcome,
                    !.lastError = IF outcome = 404 THEN "HTTP 404" ELSE "HTTP 500",
                    !.again = FALSE]
  ELSE [loop EXCEPT !.response = outcome, !.lastError = Null, !.again = FALSE]

\* while (retryCount <= maxRetries) over the outcomes of the successive
\* requests; requests counts the calls of fetch.
RECURSIVE RetryLoop(_, _)
RetryLoop(loop, outcomes) ==
  IF ~loop.again \/ loop.retryCount > maxRetries \/ outcomes = <<>> THEN loop
  ELSE RetryLoop([Attempt(loop, Head(outcomes)) EXCEPT !.requests = loop.requests + 1],
                 Tail(outcomes))

\* The lookup of one address: the loop, then
\* if (!response || !response.ok) throw new Error(lastError || ...).
Lookup(outcomes) ==
  LET loop == RetryLoop([retryCount |-> 0, response |-> NoResponse, lastError |-> Null,
                         requests |-> 0, again |-> TRUE], outcomes)
  IN [ok |-> loop.response # NoResponse /\ Ok(loop.response),
      message |-> IF loop.lastError # Null THEN loop.lastError
                  ELSE "API request failed after 4 attempts",
      retryCount |-> loop.retryCount,
      requests |-> loop.requests,
      open |-> loop.again /\ loop.retryCount <= maxRetries]

\* What the upstream can answer to the requests of one lookup: the outcome
\* sequences that the loop reads to the end and stops at.
LookupRuns ==
  {run \in SeqsUpTo(Outcomes, maxRetries + 1) :
     /\ run # <<>>
     /\ ~Lookup(run).open
     /\ Lookup(run).requests = Len(run)}

\* The requests of one address, from the first one sent to the end of the
\* loop. The waits in between touch nothing but the loop's locals, so the
\* loop is one step; it takes time if it has waited.
RunnerFetch(p, run, fault) ==
  /\ procs[p].pc = "w_fetch"
  /\ TaskTurn
  /\ LET pr == procs[p]
         res == Lookup(run)
         t == IF res.retryCount > 0 THEN now + 1 ELSE now
         sent == [pr EXCEPT !.run = run, !.requests = res.requests]
     IN IF res.ok
        THEN Step(p, [sent EXCEPT !.pc = "w_json"], batchJobs, addressResults, t, FALSE)
        ELSE Step(p, [sent EXCEPT !.pc = "w_failed"],
                  batchJobs,
                  IF fault THEN addressResults
                  ELSE updateAddressResult(addressResults, pr.entry,
                         [status |-> "failed", errorMessage |-> res.message], t),
                  t, fault)

\* response.json() is over: the success write, or a parse error is caught.
RunnerJson(p, parsed, fault) ==
  /\ procs[p].pc = "w_json"
  /\ TaskTurn
  /\ LET pr == [procs[p] EXCEPT !.run = <<>>, !.requests = 0] IN
     IF parsed
     THEN Step(p, [pr EXCEPT !.pc = "w_success"],
               batchJobs,
               IF fault THEN addressResults
               ELSE updateAddressResult(addressResults, pr.entry,
                      [status |-> "success", data |-> Payload, errorMessage |-> Null], now),
               now, fault)
     ELSE FailWrite(p, pr, "Unexpected token", fault)

\* After the success write: successCount++, then count the address.
RunnerSuccess(p, fault) ==
  /\ procs[p].pc = "w_success"
  /\ Turn(p)
  /\ LET pr == procs[p] IN
     IF pr.threw THEN FailWrite(p, pr, "store error", fault)
     ELSE Progress(p, [pr EXCEPT !.successCount = pr.successCount + 1], fault)

\* After the failed write: failedCount++, then count the address.
RunnerFailed(p, fault) ==
  /\ procs[p].pc = "w_failed"
  /\ Turn(p)
  /\ LET pr == [procs[p] EXCEPT !.run = <<>>, !.requests = 0] IN
     IF pr.threw THEN OuterCatch(p, pr, fault)
     ELSE Progress(p, [pr EXCEPT !.failedCount = pr.failedCount + 1], fault)

\* After the progress write: delay(requestDelay) unless this was the last
\* count, then the next address. The wait touches nothing but the timer, so
\* it is part of this step; it takes time.
RunnerProgress(p, fault) ==
  /\ procs[p].pc = "w_progress"
  /\ Turn(p)
  /\ LET pr == procs[p] IN
     IF pr.threw THEN OuterCatch(p, pr, fault)
     ELSE EnterIteration(p,
            [pr EXCEPT !.i = pr.i + 1,
                       !.waited = IF pr.processedCount < Len(pr.addresses)
                                  THEN requestDelay(pr.rateLimit) ELSE 0],
            batchJobs, addressResults,
            IF pr.processedCount < Len(pr.addresses) THEN now + 1 ELSE now,
            fault)

\* After the final write the runner returns; a failed final write rejects the
\* runner's promise, which nothing awaits.
RunnerFinal(p) ==
  /\ procs[p].pc = "w_final"
  /\ Turn(p)
  /\ Step(p, [procs[p] EXCEPT !.pc = IF procs[p].threw THEN "crashed" ELSE "done"],
          batchJobs, addressResults, now, FALSE)

\* ------------------------------------------------------------ read routes
\* getBatchJob: the job in a one-element list, <<>> for undefined.
getBatchJob(jobs, id) == IF id \in DOMAIN jobs THEN <<jobs[id]>> ELSE <<>>

\* The timestamps of a listing, up to their order within the listing.
ListedStamp(rows, results, id) ==
  Rank({rows[results[k]].processedAt : k \in DOMAIN results}, rows[id].processedAt)

\* res.json(results): the rows of the listing in its order.
Listed(rows, results) ==
  [k \in DOMAIN results |->
     [id |-> results[k],
      batchJobId |-> rows[results[k]].batchJobId,
      address |-> rows[results[k]].address,
      status |-> rows[results[k]].status,
      data |-> rows[results[k]].data,
      errorMessage |-> rows[results[k]].errorMessage,
      processedAt |-> ListedStamp(rows, results, results[k])]]

\* An answer: the status code, the job (if the body has one) and the rows
\* or lines of the body.
Answer(code, job, lines) == [code |-> code, batchJob |-> job, lines |-> lines]

\* GET /api/batch-jobs/:id
GetJob(jobs, rows, id) ==
  LET job == getBatchJob(jobs, id)
  IN IF job = <<>> THEN Answer(404, <<>>, <<>>) ELSE Answer(200, job, <<>>)

\* GET /api/batch-jobs/:id/results: no look at the job.
GetResults(jobs, rows, id) ==
  Answer(200, <<>>, Listed(rows, getAddressResultsByBatchId(rows, id)))

CsvHeader ==
  <<"Address", "BTC Balance (sats)", "Token Count", "Transactions",
    "Total Value USD", "Target Token Balance", "Status">>

\* One line of the CSV: the fields before join(','). The five figures of a
\* success row are read from its payload, which stands for each of them.
CsvLine(result) ==
  IF result.status = "success" /\ result.data # Null
  THEN <<result.address, result.data, result.data, result.data, result.data,
         result.data, result.status>>
  ELSE <<result.address, "0", "0", "0", "0", "0", result.status>>

\* GET /api/batch-jobs/:id/export/csv
ExportCsv(jobs, rows, id) ==
  LET results == getAddressResultsByBatchId(rows, id)
      job == getBatchJob(jobs, id)
  IN IF job = <<>> THEN Answer(404, <<>>, <<>>)
     ELSE Answer(200, <<>>,
            <<CsvHeader>> \o [k \in DOMAIN results |-> CsvLine(rows[results[k]])])

\* GET /api/batch-jobs/:id/export/json
ExportJson(jobs, rows, id) ==
  LET results == getAddressResultsByBatchId(rows, id)
      job == getBatchJob(jobs, id)
  IN IF job = <<>> THEN Answer(404, <<>>, <<>>)
     ELSE Answer(200, job,
            [k \in DOMAIN results |->
               [address |-> rows[results[k]].address,
                status |-> rows[results[k]].status,
                data |-> rows[results[k]].data,
                errorMessage |-> rows[results[k]].errorMessage,
                processedAt |-> ListedStamp(rows, results, results[k])]])

ReadRoutes == {"job", "results", "csv", "json"}

Response(route, jobs, rows, id) ==
  CASE route = "job" -> GetJob(jobs, rows, id)
    [] route = "results" -> GetResults(jobs, rows, id)
    [] route = "csv" -> ExportCsv(jobs, rows, id)
    [] route = "json" -> ExportJson(jobs, rows, id)

ReadMarkingJob(route, id) ==
  /\ TaskTurn
  /\ lastRead' = [route |-> route, job |-> id,
                  response |-> Response(route, batchJobs, addressResults, id)]
  /\ Store(updateBatchJob(batchJobs, id, [completedAt |-> now]), addressResults, now)
  /\ UNCHANGED <<procs, faults, lookup, direct, form>>

\* A read route is called and answers. Its store calls are settled when they
\* return, so the handler runs from call to answer with nothing in between.
Read(route, id) ==
  /\ TaskTurn
  /\ lastRead' = [route |-> route, job |-> id,
                  response |-> Response(route, batchJobs, addressResults, id)]
  /\ UNCHANGED <<batchJobs, addressResults, now, procs, faults, lookup, direct, form>>

\* ------------------------------------------------- one lookup, pass by pass
\* `HTTP ${response.status}: ${response.statusText}`
HttpErrorText(status) == IF status = 404 THEN "HTTP 404" ELSE "HTTP 500"

Max(a, b) == IF a >= b THEN a ELSE b
Min(a, b) == IF a <= b THEN a ELSE b

retryDelay429Flat(rateLimit, retryCount) == Max(5000, requestDelay(rateLimit))

\* Math.max(5000, requestDelay) * (retryCount + 1)
retryDelay429(rateLimit, retryCount) ==
  Max(5000, requestDelay(rateLimit)) * (retryCount + 1)

\* Math.max(2000, requestDelay) * (retryCount + 1)
retryDelayNetwork(rateLimit, retryCount) ==
  Max(2000, requestDelay(rateLimit)) * (retryCount + 1)

\* The rate limits a run is given.
Rates == {1, 3, 5, 1000}

\* while (retryCount <= maxRetries), and no break so far.
LoopOpen(loop) == loop.again /\ loop.retryCount <= maxRetries

\* The answer to request n: the one on record, or a new one.
Upstream(n, outcome) == n <= Len(lookup.run) => outcome = lookup.run[n]

Recorded(n, outcome) ==
  IF n <= Len(lookup.run) THEN lookup.run ELSE Append(lookup.run, outcome)

\* The lookup of an address begins, in the runner and in the client.
LookupStart(rate, parses) ==
  /\ lookup.rate = 0
  /\ lookup' = [IdleLookup EXCEPT !.rate = rate, !.parses = parses]
  /\ UNCHANGED <<serverVars, direct, form>>

\* One pass of the runner's while loop: the request, its answer, and the
\* delay awaited if the loop goes round again. When the loop has ended:
\* throw unless the response is ok, then response.json().
RunnerPass(outcome) ==
  /\ lookup.rate # 0
  /\ LoopOpen(lookup.loop)
  /\ LET loop == lookup.loop
         n == loop.requests + 1
         after == [Attempt(loop, outcome) EXCEPT !.requests = n]
         wait == IF outcome = 429 THEN retryDelay429(lookup.rate, loop.retryCount)
                 ELSE retryDelayNetwork(lookup.rate, loop.retryCount)
     IN /\ Upstream(n, outcome)
        /\ lookup' = [lookup EXCEPT
              !.run = Recorded(n, outcome),
              !.loop = after,
              !.waits = IF LoopOpen(after) THEN Append(@, wait) ELSE @,
              !.result = IF LoopOpen(after) THEN ""
                         ELSE IF after.response # NoResponse /\ Ok(after.response)
                                 /\ lookup.parses
                              THEN "success" ELSE "failed"]
  /\ UNCHANGED <<serverVars, direct, form>>

retries == 3       \* callSparkscanAPI(address, retries = 3)

\* One pass of the for loop of callSparkscanAPI: the call after it, and the
\* delay it awaits before the next pass (0: it returns).
CallPass(call, outcome, parses) ==
  LET more == call.attempt < retries
      next == [call EXCEPT !.attempt = call.attempt + 1, !.requests = call.requests + 1]
      last(message) == [call EXCEPT !.requests = call.requests + 1, !.again = FALSE,
                                    !.success = FALSE, !.error = message]
  IN IF outcome = NetworkError \/ (Ok(outcome) /\ ~parses)
     THEN IF more THEN [call |-> next, wait |-> 2000 * call.attempt]
          ELSE [call |-> last(IF outcome = NetworkError THEN "Network error"
                                ELSE "Unexpected token"), wait |-> 0]
     ELSE IF outcome = 429
     THEN IF more THEN [call |-> next, wait |-> Min(5000 * call.attempt, 15000)]
          ELSE [call |-> last("Rate limited after multiple retries"), wait |-> 0]
     ELSE IF ~Ok(outcome)
     THEN IF more THEN [call |-> next, wait |-> 2000 * call.attempt]
          ELSE [call |-> last(HttpErrorText(outcome)), wait |-> 0]
     ELSE [call |-> [call EXCEPT !.requests = call.requests + 1, !.again = FALSE,
                                 !.success = TRUE],
           wait |-> 0]

\* One pass of callSparkscanAPI in the client.
ClientPass(outcome) ==
  /\ lookup.rate # 0
  /\ lookup.call.again
  /\ lookup.call.attempt <= retries
  /\ LET n == lookup.call.requests + 1
         pass == CallPass(lookup.call, outcome, lookup.parses)
     IN /\ Upstream(n, outcome)
        /\ lookup' = [lookup EXCEPT
              !.run = Recorded(n, outcome),
              !.call = pass.call,
              !.callWaits = IF pass.call.again THEN Append(@, pass.wait) ELSE @]
  /\ UNCHANGED <<serverVars, direct, form>>

\* ------------------------------------------- processAddressesDirectly
\* The lists handleStartAnalysis passes on: it returns early on an empty one.
DirectLists == AddressLists \ {<<>>}

\* setTimeout(() => processAddressesDirectly(...), 100): the loop starts with
\* callSparkscanAPI for the first address.
DirectStart(addrs) ==
  /\ direct.pc = "idle"
  /\ direct' = [IdleDirect EXCEPT !.pc = "lookup", !.addresses = addrs, !.i = 1]
  /\ UNCHANGED <<serverVars, lookup, form>>

\* callSparkscanAPI has returned (it catches every error of its own): the
\* outcome is submitted.
DirectLookup(success) ==
  /\ direct.pc = "lookup"
  /\ direct' = [direct EXCEPT !.pc = "submit",
                               !.status = IF success THEN "success" ELSE "failed"]
  /\ UNCHANGED <<serverVars, lookup, form>>

\* What the server has received once a submit-result request is over: the
\* request reached it or was lost on the way.
Received(reached) ==
  IF reached
  THEN Append(direct.received,
              [entry |-> direct.i, address |-> direct.addresses[direct.i],
               status |-> direct.status])
  ELSE direct.received

\* The bottom of the loop body: the delay and the next address, or the return.
DirectNext(received) ==
  IF direct.i < Len(direct.addresses)
  THEN [direct EXCEPT !.pc = "lookup", !.i = direct.i + 1, !.status = "",
                      !.received = received]
  ELSE [direct EXCEPT !.pc = "done", !.status = "", !.received = received]

\* The submit of the try block is over. mutateAsync rejects when the request
\* fails, the answer is not ok or its body does not parse; the catch block
\* then submits the address as failed.
DirectSubmit(threw, reached) ==
  /\ direct.pc = "submit"
  /\ (~threw => reached)
  /\ direct' = IF threw
                THEN [direct EXCEPT !.pc = "catch_submit", !.status = "failed",
                                    !.received = Received(reached)]
                ELSE DirectNext(Received(reached))
  /\ UNCHANGED <<serverVars, lookup, form>>

\* The submit of the catch block is over. Nothing catches its rejection: the
\* promise of processAddressesDirectly rejects and the loop is left.
DirectCatchSubmit(threw, reached) ==
  /\ direct.pc = "catch_submit"
  /\ (~threw => reached)
  /\ direct' = IF threw
                THEN [direct EXCEPT !.pc = "crashed", !.received = Received(reached)]
                ELSE DirectNext(Received(reached))
  /\ UNCHANGED <<serverVars, lookup, form>>

\* ---------------------------------------------------------- specifications
RouteActions(P, lists, mayFail) ==
  \E p \in P :
    \/ \E id \in JobIds, addrs \in lists, f \in FaultChoices(mayFail) :
         StartRequest(p, id, addrs, f)
    \/ \E f \in FaultChoices(mayFail) : StartUpdate(p, f)
    \/ \E f \in FaultChoices(mayFail) : StartCreate(p, f)

RunnerActions(P, runs, mayFail) ==
  \E p \in P :
    \/ \E f \in FaultChoices(mayFail) : RunnerList(p, f)
    \/ \E f \in FaultChoices(mayFail) : RunnerMark(p, f)
    \/ \E run \in runs, f \in FaultChoices(mayFail) : RunnerFetch(p, run, f)
    \/ \E parsed \in BOOLEAN, f \in FaultChoices(mayFail) : RunnerJson(p, parsed, f)
    \/ \E f \in FaultChoices(mayFail) : RunnerSuccess(p, f)
    \/ \E f \in FaultChoices(mayFail) : RunnerFailed(p, f)
    \/ \E f \in FaultChoices(mayFail) : RunnerProgress(p, f)
    \/ RunnerFinal(p)

\* One job, created with any body the route accepts, and one start request
\* (for that job or for an id the store does not know); MemStorage, whose calls
\* never fail.
Next ==
  \/ \E body \in JobBodies : CreateJob(1, body)
  \/ Tick
  \/ RouteActions({1}, AddressLists, FALSE)
  \/ RunnerActions({1}, LookupRuns, FALSE)

Spec == Init /\ [][Next]_vars

\* The lookups that end with their first or second request: what the store
\* sees of a lookup is its result, its message and whether it waited.
ShortRuns == {run \in LookupRuns : Len(run) <= 2}

\* The same with a store whose calls may fail (IStorage behind a database);
\* the job is created as the client creates it, lookups are short.
NextFaults ==
  \/ \E body \in ClientBodies : CreateJob(1, body)
  \/ Tick
  \/ RouteActions({1}, AddressLists, TRUE)
  \/ RunnerActions({1}, ShortRuns, TRUE)

SpecFaults == Init /\ [][NextFaults]_vars

\* The same under the scheduling of the event loop: a continuation that is
\* ready runs, every upstream call returns or errors, every timer fires. No
\* request has to arrive.
Continue(p, mayFail) ==
  \/ \E f \in FaultChoices(mayFail) : StartUpdate(p, f)
  \/ \E f \in FaultChoices(mayFail) : StartCreate(p, f)
  \/ RunnerActions({p}, ShortRuns, mayFail)

SpecFaultsLive == SpecFaults /\ WF_vars(Continue(1, TRUE))

\* Several start requests for one job, each with at most one address, lookups
\* short.
RestartLists == SeqsUpTo(Addresses, 1)
RestartBodies == {b \in ClientBodies : b.totalAddresses = 1}

NextRestart ==
  \/ \E body \in RestartBodies : CreateJob(1, body)
  \/ Tick
  \/ RouteActions(ProcIds, RestartLists, FALSE)
  \/ RunnerActions(ProcIds, ShortRuns, FALSE)

SpecRestart == Init /\ [][NextRestart]_vars

\* Several jobs, each created as the client does and started once (process p
\* starts job p) with at most one address; the runs interleave freely.
NextJobs ==
  \/ \E id \in ProcIds, body \in RestartBodies : CreateJob(id, body)
  \/ Tick
  \/ \E p \in ProcIds, addrs \in RestartLists : StartRequest(p, p, addrs, FALSE)
  \/ \E p \in ProcIds : StartUpdate(p, FALSE)
  \/ \E p \in ProcIds : StartCreate(p, FALSE)
  \/ RunnerActions(ProcIds, ShortRuns, FALSE)

SpecJobs == Init /\ [][NextJobs]_vars

\* Jobs 1 and 2, each started once with at most one address, and a client
\* that calls the read routes of either job at any time.
NextReads ==
  \/ \E id \in JobIds, body \in RestartBodies : CreateJob(id, body)
  \/ Tick
  \/ \E p \in JobIds, addrs \in RestartLists : StartRequest(p, p, addrs, FALSE)
  \/ \E p \in JobIds : StartUpdate(p, FALSE)
  \/ \E p \in JobIds : StartCreate(p, FALSE)
  \/ RunnerActions(JobIds, ShortRuns, FALSE)
  \/ \E route \in ReadRoutes, id \in JobIds : Read(route, id)

SpecReads == Init /\ [][NextReads]_vars

\* One address looked up by the runner's loop and by callSparkscanAPI, both
\* given the same answers by the upstream.
NextLookup ==
  \/ \E rate \in Rates, parses \in BOOLEAN : LookupStart(rate, parses)
  \/ \E outcome \in Outcomes : RunnerPass(outcome)
  \/ \E outcome \in Outcomes : ClientPass(outcome)

SpecLookup == Init /\ [][NextLookup]_vars

\* The caller-driven run of one list in the client.
NextDirect ==
  \/ \E addrs \in DirectLists : DirectStart(addrs)
  \/ \E success \in BOOLEAN : DirectLookup(success)
  \/ \E threw, reached \in BOOLEAN : DirectSubmit(threw, reached)
  \/ \E threw, reached \in BOOLEAN : DirectCatchSubmit(threw, reached)

SpecDirect == Init /\ [][NextDirect]_vars

\* ------------------------------------------------------------------ claims
Defined(x) == x # Undefined
JobRows(j) == {i \in DOMAIN addressResults : addressResults[i].batchJobId = j}

\* The start route has marked job j processing.
Started(j) ==
  \E p \in ProcIds :
    /\ procs[p].job = j
    /\ procs[p].found
    /\ procs[p].pc \notin {"idle", "h_get"}

\* No continuation is waiting in the microtask queue: the states in which a
\* request handler can run and read the store.
Observable == TaskTurn

\* C1: once processing of a job has begun, the stored job has
\* processedAddresses = successfulLookups + failedLookups whenever the store
\* can be observed.
C1_CountersAddUp ==
  \A j \in DOMAIN batchJobs :
    (Observable /\ Started(j)) =>
      /\ Defined(batchJobs[j].processedAddresses)
      /\ Defined(batchJobs[j].successfulLookups)
      /\ Defined(batchJobs[j].failedLookups)
      /\ batchJobs[j].processedAddresses
           = batchJobs[j].successfulLookups + batchJobs[j].failedLookups

\* C2: whenever the store can be observed, the stored job has
\* processedAddresses <= totalAddresses.
C2_ProcessedAtMostTotal ==
  \A j \in DOMAIN batchJobs :
    (Observable /\ Defined(batchJobs[j].processedAddresses)) =>
      batchJobs[j].processedAddresses <= batchJobs[j].totalAddresses

\* pending -> processing -> {completed, failed}
StatusRank(status) ==
  IF status = "pending" THEN 0 ELSE IF status = "processing" THEN 1 ELSE 2

\* C3: a job's status never moves back: not from completed or failed to
\* pending or processing, not from processing to pending.
C3_JobStatusForward ==
  [][\A j \in DOMAIN batchJobs :
       StatusRank(batchJobs'[j].status) >= StatusRank(batchJobs[j].status)]_vars

\* C4: once a job's stored status is completed, no field of the job record
\* changes again.
C4_CompletedJobFrozen ==
  [][\A j \in DOMAIN batchJobs :
       batchJobs[j].status = "completed" => batchJobs'[j] = batchJobs[j]]_vars

\* C5: whenever the store can be observed, completedAt is non-null exactly
\* when the job's status is completed or failed.
C5_CompletedAtIffTerminal ==
  \A j \in DOMAIN batchJobs :
    Observable =>
      ((batchJobs[j].completedAt # NoDate) <=> (batchJobs[j].status \in Terminal))

\* C6: a row that is success or failed keeps its status, and a row that is
\* processing is never written back to pending.
C6_RowStatusForward ==
  [][\A i \in DOMAIN addressResults :
       /\ addressResults[i].status \in RowTerminal
            => addressResults'[i].status = addressResults[i].status
       /\ addressResults[i].status = "processing"
            => addressResults'[i].status # "pending"]_vars

\* C7: whenever the store can be observed, a row has a payload exactly when
\* it is success and an error message exactly when it is failed.
C7_PayloadIffSuccess ==
  \A i \in DOMAIN addressResults :
    Observable =>
      /\ (addressResults[i].data # Null) <=> (addressResults[i].status = "success")
      /\ (addressResults[i].errorMessage # Null) <=> (addressResults[i].status = "failed")

\* The route of process p hands over to the runner in this step.
Launches(p) == procs[p].pc \in HandlerPcs /\ procs'[p].pc \in RunnerPcs

\* C8: when the runner starts, the store holds exactly one row for each
\* address of the submitted list, and that row is pending.
C8_OnePendingRowPerAddress ==
  [][\A p \in ProcIds :
       Launches(p) =>
         \A k \in DOMAIN procs[p].addresses :
           LET rowsOf == {i \in DOMAIN addressResults' :
                            /\ addressResults'[i].batchJobId = procs[p].job
                            /\ addressResults'[i].address = procs[p].addresses[k]}
           IN /\ Cardinality(rowsOf) = 1
              /\ \A i \in rowsOf : addressResults'[i].status = "pending"]_vars

\* C9: whenever the store can be observed and a job's stored status is
\* completed, every one of its rows is success or failed.
C9_CompletedMeansAllRowsTerminal ==
  \A j \in DOMAIN batchJobs :
    (Observable /\ batchJobs[j].status = "completed") =>
      \A i \in JobRows(j) : addressResults[i].status \in RowTerminal

\* C10: lookups that fail never fail the job. Counting a failed lookup adds
\* one to failedCount and failedLookups and nothing to successCount; while
\* the runner works the job is never failed; its final write leaves the job
\* completed, however many lookups failed.
C10_LookupFailuresDoNotFailJob ==
  [][\A p \in ProcIds :
       LET pr == procs[p]
           after == procs'[p]
       IN /\ (pr.pc = "w_failed" /\ after.pc = "w_progress") =>
               /\ after.failedCount = pr.failedCount + 1
               /\ after.successCount = pr.successCount
               /\ batchJobs'[pr.job].failedLookups = after.failedCount
               /\ batchJobs'[pr.job].successfulLookups = after.successCount
          /\ (pr.pc \in RunnerPcs) => batchJobs'[pr.job].status # "failed"
          /\ (pr.pc # "w_final" /\ after.pc = "w_final") =>
               /\ batchJobs'[after.job].status = "completed"
               /\ batchJobs'[after.job].failedLookups = after.failedCount]_vars

\* A run of two addresses whose lookups both failed has ended: the job is
\* completed with two failed lookups.
C10_Witness ==
  \E p \in ProcIds :
    /\ procs[p].pc = "done"
    /\ procs[p].reply = 200
    /\ procs[p].failedCount = 2
    /\ Len(procs[p].addresses) = 2
    /\ batchJobs[procs[p].job].status = "completed"
    /\ batchJobs[procs[p].job].failedLookups = 2
    /\ \A i \in JobRows(procs[p].job) : addressResults[i].status = "failed"

\* The runner of process p is inside the loop body for address i, before the
\* address is counted.
AtAddress(pr) ==
  pr.pc \in {"w_list", "w_mark", "w_fetch", "w_json", "w_success", "w_failed"}

\* The runner of process p has left the loop.
PastLoop(pr) == pr.pc \in {"w_final", "done", "crashed"} /\ pr.reply = 200

\* C11: a store call that throws while address i is processed is caught and
\* address i is counted once, as a failure only: while the runner works on
\* address i it has counted i - 1 addresses, each as a success or a failure,
\* and past the loop it has counted every address of the list once.
C11_FaultCountsOnce ==
  \A p \in ProcIds :
    LET pr == procs[p] IN
    /\ AtAddress(pr) =>
         /\ pr.processedCount = pr.i - 1
         /\ pr.successCount + pr.failedCount = pr.i - 1
    /\ PastLoop(pr) =>
         /\ pr.i = Len(pr.addresses) + 1
         /\ pr.processedCount = Len(pr.addresses)
         /\ pr.successCount + pr.failedCount = Len(pr.addresses)

\* The stored status of job j; "" while the store has no such job.
StatusOf(j) == IF j \in DOMAIN batchJobs THEN batchJobs[j].status ELSE ""

\* C12: a job that a start request has marked processing is eventually
\* completed, also when store calls fail.
C12_StartedJobCompletes ==
  (StatusOf(1) = "processing") ~> (StatusOf(1) = "completed")

\* C13: one run works through its list in input order, one upstream call at a
\* time. The runner moves from address i to address i + 1 only, and only
\* when it has counted address i; it sends the lookup of address i right
\* after it has marked the row of address i processing, and has no other
\* lookup open then.
C13_SequentialInOrder ==
  [][\A p \in ProcIds :
       LET pr == procs[p]
           after == procs'[p]
       IN (pr.pc \in RunnerPcs) =>
            /\ after.i \in {pr.i, pr.i + 1}
            /\ after.i = pr.i + 1 => after.processedCount >= pr.i
            /\ (pr.pc # "w_fetch" /\ after.pc = "w_fetch") =>
                 /\ pr.pc = "w_mark" /\ ~pr.threw
                 /\ after.i = pr.i /\ after.i \in 1..Len(after.addresses)
                 /\ after.processedCount >= after.i - 1
                 /\ addressResults'[after.entry].status = "processing"
                 /\ addressResults'[after.entry].batchJobId = after.job
                 /\ addressResults'[after.entry].address = after.addresses[after.i]]_vars

\* The lookup of the second address of a list is open: the first address has
\* been counted and the row of the second is processing.
C13_Witness ==
  \E p \in ProcIds :
    /\ procs[p].pc = "w_fetch"
    /\ procs[p].i = 2
    /\ procs[p].processedCount >= 1
    /\ addressResults[procs[p].entry].status = "processing"
    /\ addressResults[procs[p].entry].address = procs[p].addresses[2]

\* C14: while the first request of an address other than the first of the
\* list is open, the runner has waited at least ceil(1000 / rateLimit) ms
\* since it finished the address before.
C14_DelayBeforeNextAddress ==
  \A p \in ProcIds :
    (procs[p].pc = "w_fetch" /\ procs[p].i > 1) =>
      procs[p].waited >= requestDelay(procs[p].rateLimit)

\* The upstream answered 429 to every request but the last, and 2xx to the last.
Then429Ok(run) ==
  /\ run # <<>>
  /\ Ok(run[Len(run)])
  /\ \A n \in 1..(Len(run) - 1) : run[n] = 429

\* The upstream answered 429 to every request.
All429(run) == run # <<>> /\ \A n \in 1..Len(run) : run[n] = 429

\* What the retry loop made of the answers 429 (k times) then 2xx, and of
\* 429 four times: success after k + 1 requests with k <= 3, failure after
\* exactly 4 requests with the row written failed.
LookupOf429s(pr) ==
  /\ Then429Ok(pr.run) =>
       /\ pr.pc = "w_json"
       /\ Len(pr.run) <= 4
       /\ pr.requests = Len(pr.run)
  /\ All429(pr.run) =>
       /\ pr.pc = "w_failed"
       /\ Len(pr.run) = 4
       /\ pr.requests = 4
       /\ addressResults[pr.entry].status = "failed"
       /\ addressResults[pr.entry].errorMessage # Null

\* The write that follows a lookup which ended 2xx after 429s: the row is
\* success with the payload and no error message, and no request follows.
SuccessWritten(p) ==
  /\ procs'[p].pc = "w_success"
  /\ procs'[p].requests = 0
  /\ addressResults'[procs[p].entry].status = "success"
  /\ addressResults'[procs[p].entry].data = Payload
  /\ addressResults'[procs[p].entry].errorMessage = Null

\* C15: 429 k times (k <= 3) then 2xx is a success after k + 1 requests and
\* the row is written success with the payload; 429 four times is a failure
\* after 4 requests.
C15_Retry429ThenSuccess ==
  /\ [](\A p \in ProcIds : LookupOf429s(procs[p]))
  /\ [][\A p \in ProcIds :
         (Then429Ok(procs[p].run) /\ procs'[p] # procs[p]) => SuccessWritten(p)]_vars

\* A response status that is neither 2xx nor 429.
HttpError(outcome) == outcome # NetworkError /\ ~Ok(outcome) /\ outcome # 429

\* The message of the Error thrown for such a status: `HTTP ${status}: ...`.
HttpErrorMessage(status) == IF status = 404 THEN "HTTP 404" ELSE "HTTP 500"

\* C16: an answer with a status that is neither 2xx nor 429 ends the lookup
\* at once as a failure, at whatever attempt it comes: it is the last answer
\* of the lookup, no request follows it, and the row is failed with a message
\* that names the status.
C16_HttpErrorFailsAtOnce ==
  \A p \in ProcIds :
    LET pr == procs[p] IN
    \A n \in 1..Len(pr.run) :
      HttpError(pr.run[n]) =>
        /\ n = Len(pr.run)
        /\ pr.requests = n
        /\ pr.pc = "w_failed"
        /\ addressResults[pr.entry].status = "failed"
        /\ addressResults[pr.entry].errorMessage = HttpErrorMessage(pr.run[n])

\* A lookup was answered 429 and then 404: it has ended after its second
\* request and the row is failed with "HTTP 404".
C16_Witness ==
  \E p \in ProcIds :
    /\ procs[p].pc = "w_failed"
    /\ procs[p].run = <<429, 404>>
    /\ procs[p].requests = 2
    /\ addressResults[procs[p].entry].status = "failed"
    /\ addressResults[procs[p].entry].errorMessage = "HTTP 404"

\* C17: while the runner works on an address other than the first, the
\* stored job shows the runner's counters as they were after the address
\* before, whenever the store can be observed.
C17_CountersPersistedPerAddress ==
  \A p \in ProcIds :
    LET pr == procs[p] IN
    (Observable /\ AtAddress(pr) /\ pr.i > 1) =>
      /\ batchJobs[pr.job].processedAddresses = pr.processedCount
      /\ batchJobs[pr.job].successfulLookups = pr.successCount
      /\ batchJobs[pr.job].failedLookups = pr.failedCount

\* No address string occurs twice in the list.
Distinct(list) ==
  \A a, b \in DOMAIN list : a # b => list[a] # list[b]

\* The rows of job j for the address, and the rows of job j with the status.
RowsOfAddress(j, address) == {r \in JobRows(j) : addressResults[r].address = address}
RowsWithStatus(j, status) == {r \in JobRows(j) : addressResults[r].status = status}

\* C18: with no store fault and a list of n distinct addresses, the lookup
\* of an address decides the row of that address (success with the payload,
\* or failed with a message), and when the run has ended the job is
\* completed with totalAddresses = processedAddresses = n, successfulLookups
\* the number of success rows, failedLookups the number of failed rows, and
\* one terminal row for each address.
C18_EndToEndResult ==
  \A p \in ProcIds :
    LET pr == procs[p]
        n == Len(pr.addresses)
    IN (Distinct(pr.addresses) /\ pr.reply = 200) =>
         /\ pr.pc = "w_success" =>
              /\ addressResults[pr.entry].address = pr.addresses[pr.i]
              /\ addressResults[pr.entry].status = "success"
              /\ addressResults[pr.entry].data = Payload
         /\ pr.pc = "w_failed" =>
              /\ addressResults[pr.entry].address = pr.addresses[pr.i]
              /\ addressResults[pr.entry].status = "failed"
              /\ addressResults[pr.entry].errorMessage \notin {Null, ""}
         /\ pr.pc = "done" =>
              /\ batchJobs[pr.job].status = "completed"
              /\ batchJobs[pr.job].totalAddresses = n
              /\ batchJobs[pr.job].processedAddresses = n
              /\ batchJobs[pr.job].successfulLookups
                   = Cardinality(RowsWithStatus(pr.job, "success"))
              /\ batchJobs[pr.job].failedLookups
                   = Cardinality(RowsWithStatus(pr.job, "failed"))
              /\ batchJobs[pr.job].successfulLookups + batchJobs[pr.job].failedLookups = n
              /\ \A k \in 1..n :
                   /\ Cardinality(RowsOfAddress(pr.job, pr.addresses[k])) = 1
                   /\ \A r \in RowsOfAddress(pr.job, pr.addresses[k]) :
                        /\ addressResults[r].status \in RowTerminal
                        /\ addressResults[r].status = "failed"
                             => addressResults[r].errorMessage \notin {Null, ""}

\* A run over two distinct addresses has ended, the first looked up with
\* success and the second not.
C18_Witness ==
  \E p \in ProcIds :
    /\ procs[p].pc = "done"
    /\ procs[p].reply = 200
    /\ procs[p].addresses = <<"spA", "spB">>
    /\ batchJobs[procs[p].job].successfulLookups = 1
    /\ batchJobs[procs[p].job].failedLookups = 1
    /\ \A r \in RowsOfAddress(procs[p].job, "spA") : addressResults[r].status = "success"
    /\ \A r \in RowsOfAddress(procs[p].job, "spB") : addressResults[r].status = "failed"

\* C19: the start request is answered when the job has been marked
\* processing and a pending row has been created for every address of the
\* list, with the runner launched but no address processed: at the answer
\* every row of the job is pending, there is one for each list entry, and
\* the runner has counted nothing. The runner never works unanswered.
C19_StartAnswersBeforeRun ==
  /\ [](\A p \in ProcIds : procs[p].pc \in RunnerPcs => procs[p].reply = 200)
  /\ [][\A p \in ProcIds :
         LET pr == procs[p]
             after == procs'[p]
             rowsAfter == {r \in DOMAIN addressResults' :
                             addressResults'[r].batchJobId = pr.job}
         IN (pr.reply = 0 /\ after.reply = 200) =>
              /\ batchJobs[pr.job].status = "processing"
              /\ Cardinality(rowsAfter) = Len(pr.addresses)
              /\ \A r \in rowsAfter : addressResults'[r].status = "pending"
              /\ \A k \in 1..Len(pr.addresses) :
                   \E r \in rowsAfter : addressResults'[r].address = pr.addresses[k]
              /\ after.processedCount = 0
              /\ after.i = 1
              /\ after.pc \in {"w_list", "w_final"}
              /\ after.pc = "w_final" <=> pr.addresses = <<>>]_vars

\* The start request for a list of two addresses has been answered: both
\* rows are pending and the runner is at its first listing.
C19_Witness ==
  \E p \in ProcIds :
    /\ procs[p].reply = 200
    /\ procs[p].pc = "w_list"
    /\ procs[p].i = 1
    /\ Len(procs[p].addresses) = 2
    /\ Cardinality(JobRows(procs[p].job)) = 2
    /\ \A r \in JobRows(procs[p].job) : addressResults[r].status = "pending"

\* What a row holds besides its timestamp.
RowContent(row) ==
  [batchJobId |-> row.batchJobId, address |-> row.address, status |-> row.status,
   data |-> row.data, errorMessage |-> row.errorMessage]

\* Some process working for job j takes this step.
StepsFor(j) == \E p \in ProcIds : procs'[p] # procs[p] /\ procs'[p].job = j

\* C20: runs of different jobs do not touch each other. A job record and a
\* row are changed only by a step of a process working for that job, and a
\* job whose run has ended has the result of that run alone: completed, with
\* the counters of its own runner and its own rows in the statuses its own
\* lookups gave, whatever the other jobs did and also when they share
\* address strings.
C20_JobsIndependent ==
  /\ [][/\ \A j \in DOMAIN batchJobs : batchJobs'[j] # batchJobs[j] => StepsFor(j)
        /\ \A r \in DOMAIN addressResults :
             RowContent(addressResults'[r]) # RowContent(addressResults[r])
               => StepsFor(addressResults[r].batchJobId)
        /\ \A r \in DOMAIN addressResults' \ DOMAIN addressResults :
             StepsFor(addressResults'[r].batchJobId)]_vars
  /\ [](\A p \in ProcIds :
         LET pr == procs[p]
             n == Len(pr.addresses)
         IN (pr.pc = "done" /\ pr.reply = 200) =>
              /\ batchJobs[pr.job].status = "completed"
              /\ batchJobs[pr.job].totalAddresses = n
              /\ batchJobs[pr.job].processedAddresses = n
              /\ batchJobs[pr.job].successfulLookups = pr.successCount
              /\ batchJobs[pr.job].failedLookups = pr.failedCount
              /\ Cardinality(JobRows(pr.job)) = n
              /\ Cardinality(RowsWithStatus(pr.job, "success")) = pr.successCount
              /\ Cardinality(RowsWithStatus(pr.job, "failed")) = pr.failedCount
              /\ \A r \in JobRows(pr.job) : addressResults[r].address = pr.addresses[1])

\* Two jobs over the same address string: the run of job 2 has ended with a
\* failure while the lookup of job 1 is still open, its row processing.
C20_Witness ==
  /\ procs[1].pc = "w_fetch" /\ procs[1].job = 1 /\ procs[1].addresses = <<"spA">>
  /\ procs[2].pc = "done" /\ procs[2].job = 2 /\ procs[2].addresses = <<"spA">>
  /\ procs[2].reply = 200
  /\ batchJobs[2].status = "completed" /\ batchJobs[2].failedLookups = 1
  /\ batchJobs[1].status = "processing"
  /\ \A r \in JobRows(1) : addressResults[r].status = "processing"
  /\ \A r \in JobRows(2) : addressResults[r].status = "failed"

\* Job j exists and neither a start route nor a runner is at work for it.
Quiet(j) ==
  /\ j \in DOMAIN batchJobs
  /\ \A p \in ProcIds : procs[p].job = j => procs[p].pc \in {"idle", "done", "crashed"}

\* A read route answers in this step.
Reads ==
  IF lastRead'.route # lastRead.route \/ lastRead'.job # lastRead.job THEN TRUE
  ELSE IF lastRead.route = "" THEN FALSE
  ELSE IF lastRead'.response.code # lastRead.response.code THEN TRUE
  ELSE lastRead'.response # lastRead.response

\* C21: the read routes are idempotent and without side effects. A read
\* answers from the store as it is and changes neither the store nor any
\* request in progress; and no step taken while a job is not being processed
\* (the clock, other jobs' requests and runs, other reads) changes what the
\* job read, the results listing, the CSV export or the JSON export of that
\* job answer: same code, same job record, same rows in the same order.
C21_ReadsIdempotent ==
  [][/\ Reads =>
          /\ UNCHANGED <<batchJobs, addressResults, now, procs, faults>>
          /\ lastRead'.response
               = Response(lastRead'.route, batchJobs, addressResults, lastRead'.job)
     /\ \A j \in JobIds, route \in ReadRoutes :
          (Quiet(j) /\ Quiet(j)') =>
            Response(route, batchJobs', addressResults', j)
              = Response(route, batchJobs, addressResults, j)]_vars

\* The JSON export of job 1, whose run has ended with its one row, was read
\* while the run of job 2 over the same address is at its lookup; a read now
\* would answer the same.
C21_Witness ==
  /\ lastRead.route = "json" /\ lastRead.job = 1
  /\ Quiet(1) /\ procs[1].pc = "done" /\ procs[1].reply = 200
  /\ procs[2].pc = "w_fetch" /\ procs[2].addresses = procs[1].addresses
  /\ lastRead.response.code = 200
  /\ Len(lastRead.response.lines) = 1
  /\ lastRead.response = Response("json", batchJobs, addressResults, 1)

\* Every request of the lookup failed in transport.
AllNetwork(run) == run # <<>> /\ \A n \in 1..Len(run) : run[n] = NetworkError

\* One or more requests that failed in transport, then a request answered 2xx.
NetworkThenOk(run) ==
  /\ Len(run) >= 2
  /\ Ok(run[Len(run)])
  /\ \A n \in 1..(Len(run) - 1) : run[n] = NetworkError

\* C22: a request that fails in transport is retried, up to 3 retries. When
\* all 4 requests have failed the row is written failed with the text of
\* the last error; when a request within the 4 is answered 2xx the lookup
\* ends there and the row is written success.
C22_NetworkFailureRetried ==
  /\ [](\A p \in ProcIds :
         LET pr == procs[p] IN
         /\ AllNetwork(pr.run) =>
              /\ pr.pc = "w_failed"
              /\ Len(pr.run) = maxRetries + 1
              /\ pr.requests = maxRetries + 1
              /\ addressResults[pr.entry].status = "failed"
              /\ addressResults[pr.entry].errorMessage = "Network error"
         /\ NetworkThenOk(pr.run) =>
              /\ pr.pc = "w_json"
              /\ Len(pr.run) <= maxRetries + 1
              /\ pr.requests = Len(pr.run))
  /\ [][\A p \in ProcIds :
         (NetworkThenOk(procs[p].run) /\ procs'[p] # procs[p]) => SuccessWritten(p)]_vars

\* ceil(1000 / R) for a positive R, by its definition.
Ceil1000Over(R) == CHOOSE c \in 1..1000 : c * R >= 1000 /\ (c - 1) * R < 1000

\* C23: the delay the runner awaits before its k-th retry (k = 1, 2, 3) is
\* max(5000, ceil(1000/R)) * k after a 429 and max(2000, ceil(1000/R)) * k
\* after a network failure; for the R of the run the network delay is never
\* longer than the 429 delay, each is longer than the one of its kind before
\* retry k - 1, and every delay is at least ceil(1000/R).
C23_BackoffArithmetic ==
  LET R == lookup.rate
      waits == lookup.waits
      after429(k) == Max(5000, Ceil1000Over(R)) * k
      afterNetwork(k) == Max(2000, Ceil1000Over(R)) * k
  IN /\ Len(waits) <= maxRetries
     /\ \A k \in DOMAIN waits :
          /\ lookup.run[k] \in {429, NetworkError}
          /\ lookup.run[k] = 429 => waits[k] = after429(k)
          /\ lookup.run[k] = NetworkError => waits[k] = afterNetwork(k)
          /\ waits[k] >= Ceil1000Over(R)
          /\ afterNetwork(k) <= after429(k)
          /\ \A m \in 1..(k - 1) :
               lookup.run[m] = lookup.run[k] => waits[m] < waits[k]

\* The runner has retried three times at rate 3: after a 429, after a
\* network failure and after a 429 again.
C23_Witness ==
  /\ lookup.rate = 3
  /\ lookup.waits = <<5000, 4000, 15000>>
  /\ lookup.run[1] = 429 /\ lookup.run[2] = NetworkError /\ lookup.run[3] = 429

\* Both lookups of the address have ended.
BothEnded ==
  /\ lookup.rate # 0
  /\ ~LoopOpen(lookup.loop)
  /\ ~(lookup.call.again /\ lookup.call.attempt <= retries)

\* C24: given the same answers (429, another status that is not 2xx, a
\* network error, or 2xx with a JSON body), callSparkscanAPI and the runner's
\* lookup make the same number of requests and end alike, in success or in
\* failure.
C24_ClientMatchesRunner ==
  (BothEnded /\ lookup.parses) =>
    /\ lookup.call.requests = lookup.loop.requests
    /\ lookup.call.success <=> (lookup.result = "success")

\* C25: during a run the stored counters never run ahead of the rows:
\* whenever the store can be observed, processedAddresses is at most the
\* number of the job's rows that are success or failed, successfulLookups at
\* most the number of success rows, failedLookups at most the number of
\* failed rows.
C25_CountersNeverLeadRows ==
  \A j \in DOMAIN batchJobs :
    (Observable /\ Started(j)) =>
      /\ batchJobs[j].processedAddresses
           <= Cardinality(RowsWithStatus(j, "success") \cup RowsWithStatus(j, "failed"))
      /\ batchJobs[j].successfulLookups <= Cardinality(RowsWithStatus(j, "success"))
      /\ batchJobs[j].failedLookups <= Cardinality(RowsWithStatus(j, "failed"))

\* The runners at work for job j.
ActiveRunners(j) == {p \in ProcIds : procs[p].job = j /\ procs[p].pc \in RunnerPcs}

\* C26: however many start requests a job gets and whatever its status when
\* they arrive, at most one runner is at work for it whenever the store can
\* be observed.
C26_OneRunnerPerJob ==
  \A j \in DOMAIN batchJobs : Observable => Cardinality(ActiveRunners(j)) <= 1

\* C27: 429 answers and network failures draw on one retry budget. Whatever
\* the upstream answers, the runner makes at most 4 requests for an address
\* and its loop has ended when the fourth is answered; while the loop is
\* open every answer so far was a 429 or a network failure and each was
\* counted as a retry; and the lookup ends in success only if the last
\* request made was answered 2xx.
C27_SharedRetryBudget ==
  LET loop == lookup.loop IN
  /\ loop.requests <= maxRetries + 1
  /\ loop.retryCount <= maxRetries
  /\ loop.requests = maxRetries + 1 => ~LoopOpen(loop)
  /\ LoopOpen(loop) =>
       /\ loop.retryCount = loop.requests
       /\ \A n \in 1..loop.requests : lookup.run[n] \in {429, NetworkError}
  /\ lookup.result # "" => ~LoopOpen(loop)
  /\ lookup.result = "success" =>
       /\ loop.requests >= 1
       /\ Ok(lookup.run[loop.requests])
       /\ \A n \in 1..(loop.requests - 1) : lookup.run[n] \in {429, NetworkError}

\* The lookup ended in success at its fourth request, after a network
\* failure, a 429 and another network failure.
C27_Witness ==
  /\ lookup.loop.requests = 4
  /\ lookup.result = "success"
  /\ lookup.run[1] = NetworkError /\ lookup.run[2] = 429 /\ lookup.run[3] = NetworkError
  /\ lookup.run[4] = 200

\* The submit-result requests the server has received for list entry k.
ReceivedFor(k) == {n \in DOMAIN direct.received : direct.received[n].entry = k}

\* C28: the caller-driven run reports one outcome per address, in input
\* order, and a fault at one address does not keep it from the next ones.
\* The server receives at most one submit-result for each list entry, for
\* the entry's address, entries in input order; the run ends only past the
\* last address of the list; and when it has returned, every entry has been
\* reported.
C28_DirectReportsEachOnce ==
  /\ \A k \in DOMAIN direct.addresses : Cardinality(ReceivedFor(k)) <= 1
  /\ \A n \in DOMAIN direct.received :
       /\ direct.received[n].address = direct.addresses[direct.received[n].entry]
       /\ \A m \in 1..(n - 1) : direct.received[m].entry <= direct.received[n].entry
  /\ direct.pc \in {"done", "crashed"} => direct.i = Len(direct.addresses)
  /\ direct.pc = "done" => \A k \in DOMAIN direct.addresses : ReceivedFor(k) # {}

\* The store as the routes and runners leave it.
StoreUnchanged == batchJobs' = batchJobs /\ addressResults' = addressResults

\* C29: a start request for an id the store does not know changes nothing
\* and is answered 404. Neither the step in which it arrives nor the step
\* in which it is answered creates or changes a job or a row; the answer is
\* 404 and the handler is over, with no runner started.
C29_UnknownJobIs404 ==
  [][\A p \in ProcIds :
       LET pr == procs[p]
           after == procs'[p]
       IN /\ (pr.pc = "idle" /\ after.pc = "h_get" /\ after.job \notin DOMAIN batchJobs) =>
               /\ ~after.found
               /\ StoreUnchanged
          /\ (pr.pc = "h_get" /\ after.pc # "h_get" /\ pr.job \notin DOMAIN batchJobs) =>
               /\ after.pc = "done"
               /\ after.reply = 404
               /\ after.processedCount = 0
               /\ StoreUnchanged]_vars

\* A start request with two addresses for job 2, which the store does not
\* hold, has been answered 404; job 1 exists and no row has been created.
C29_Witness ==
  /\ procs[1].pc = "done"
  /\ procs[1].reply = 404
  /\ procs[1].job = 2
  /\ Len(procs[1].addresses) = 2
  /\ DOMAIN batchJobs = {1}
  /\ batchJobs[1].status = "pending"
  /\ addressResults = <<>>

\* ---------------------------------------------------------------------
\* The token selection of the address input form. Each handler runs to its
\* end within one event, and the component is rendered again before the
\* next event: the handlers read the current state.
\* ---------------------------------------------------------------------

\* prev.includes(x) and prev.filter(addr => addr !== x).
Includes(list, x) == \E k \in 1..Len(list) : list[k] = x
Without(list, x) == SelectSeq(list, LAMBDA addr : addr # x)

\* The checkbox of a predefined token is clicked.
handleTokenToggle(tokenAddress) ==
  /\ form' = IF tokenAddress = FSPKS THEN form
             ELSE [form EXCEPT !.selectedTokens =
                     IF Includes(@, tokenAddress) THEN Without(@, tokenAddress)
                     ELSE Append(@, tokenAddress)]
  /\ UNCHANGED <<serverVars, lookup, direct>>

\* "Add Custom Token" shows the input; the input and its buttons exist only
\* while it is shown.
ShowCustomToken ==
  /\ ~form.showCustomToken
  /\ form' = [form EXCEPT !.showCustomToken = TRUE]
  /\ UNCHANGED <<serverVars, lookup, direct>>

TypeCustomToken(text) ==
  /\ form.showCustomToken
  /\ form' = [form EXCEPT !.customTokenAddress = text]
  /\ UNCHANGED <<serverVars, lookup, direct>>

CancelCustomToken ==
  /\ form.showCustomToken
  /\ form' = [form EXCEPT !.showCustomToken = FALSE, !.customTokenAddress = ""]
  /\ UNCHANGED <<serverVars, lookup, direct>>

handleAddCustomTokenUnchecked ==
  /\ form.showCustomToken
  /\ form' = IF form.customTokenAddress # ""
             THEN [form EXCEPT !.selectedTokens = Append(@, form.customTokenAddress),
                               !.customTokenAddress = "",
                               !.showCustomToken = FALSE]
             ELSE form
  /\ UNCHANGED <<serverVars, lookup, direct>>

\* The "Add" button next to the custom token input.
handleAddCustomToken ==
  /\ form.showCustomToken
  /\ form' = IF /\ form.customTokenAddress # ""
                /\ ~Includes(form.selectedTokens, form.customTokenAddress)
             THEN [form EXCEPT !.selectedTokens = Append(@, form.customTokenAddress),
                               !.customTokenAddress = "",
                               !.showCustomToken = FALSE]
             ELSE form
  /\ UNCHANGED <<serverVars, lookup, direct>>

\* The remove button of a selected token's badge.
handleRemoveToken(tokenAddress) ==
  /\ Includes(form.selectedTokens, tokenAddress)
  /\ form' = IF tokenAddress = FSPKS THEN form
             ELSE [form EXCEPT !.selectedTokens = Without(@, tokenAddress)]
  /\ UNCHANGED <<serverVars, lookup, direct>>

handleClear ==
  /\ form' = [form EXCEPT !.selectedTokens = <<FSPKS>>,
                          !.customTokenAddress = "",
                          !.showCustomToken = FALSE]
  /\ UNCHANGED <<serverVars, lookup, direct>>

\* targetTokenAddress as handleStartAnalysis computes it.
targetTokenAddress ==
  IF Len(form.selectedTokens) > 0 THEN form.selectedTokens[1]
  ELSE IF form.customTokenAddress # "" THEN form.customTokenAddress
  ELSE NoToken

\* handleStartAnalysis up to the create request: nothing is sent for an
\* empty address list.
handleStartAnalysis(addressList) ==
  /\ form' = IF Len(addressList) = 0 THEN form
             ELSE [form EXCEPT !.targetTokenAddress = targetTokenAddress]
  /\ UNCHANGED <<serverVars, lookup, direct>>

NextForm ==
  \/ \E k \in 1..Len(PREDEFINED_TOKENS) : handleTokenToggle(PREDEFINED_TOKENS[k])
  \/ ShowCustomToken
  \/ \E text \in CustomTexts : TypeCustomToken(text)
  \/ CancelCustomToken
  \/ handleAddCustomToken
  \/ \E tokenAddress \in CustomTexts : handleRemoveToken(tokenAddress)
  \/ handleClear
  \/ \E addressList \in AddressLists : handleStartAnalysis(addressList)

SpecForm == Init /\ [][NextForm]_vars

\* C30: whatever sequence of toggle, add-custom-token, remove-token and clear
\* operations the form has gone through, the selected-token list holds no
\* token twice and has FSPKS first; so the targetTokenAddress a create
\* request carries is the FSPKS address, and the value the next request
\* would carry is FSPKS too, never the custom token input or undefined.
C30_FspksFirstNoDuplicates ==
  /\ Len(form.selectedTokens) >= 1
  /\ form.selectedTokens[1] = FSPKS
  /\ \A a, b \in 1..Len(form.selectedTokens) :
       form.selectedTokens[a] = form.selectedTokens[b] => a = b
  /\ targetTokenAddress = FSPKS
  /\ form.targetTokenAddress \in {NotSent, FSPKS}

\* Four tokens are selected, a custom one among them and UTXO ahead of
\* SNOW, a custom address different from FSPKS is typed in the input, and a
\* create request has been sent.
C30_Witness ==
  /\ form.selectedTokens = <<FSPKS, UTXO, "btkn1custom1", SNOW>>
  /\ form.customTokenAddress = SNOW
  /\ form.showCustomToken
  /\ form.targetTokenAddress = FSPKS
====
